---- MODULE Spec2Model ----
(***************************************************************************)
(* Model of the two locale maintenance scripts of the repository:          *)
(*   src/compare_i18n.py         get_keys, report_missing                  *)
(*   src/update_vocab_locales.py set_deep, update_locales                  *)
(*                                                                         *)
(* Representation.                                                         *)
(*   A Python str used as a dictionary key or as a dotted path is a        *)
(*   sequence of one-character strings, so that key.split('.') and         *)
(*   prefix + k + '.' are computed character by character.                 *)
(*   A leaf string is an opaque TLA+ string.                               *)
(*   A Python dict is the sequence of its items in insertion order; dict   *)
(*   equality (==) ignores that order and is the operator DictEq.          *)
(*   A file is absent or holds a text, a sequence of JSON tokens.          *)
(***************************************************************************)
EXTENDS Naturals, Sequences, FiniteSets, TLC

VARIABLES
    \* ---- update_locales (src/update_vocab_locales.py) ----
    files,      \* locales/<lang>.json: Absent or a token sequence
    new_keys_flat,  \* the entry table: sequence of [key, tr]
    pc,         \* position of the running update_locales call
    li,         \* index in langs of the language being processed
    ei,         \* index in new_keys_flat of the next entry to merge
    data,       \* the tree loaded by json.load for the current language
    out,        \* lines printed so far
    err,        \* "none" or the exception that ended the current run
    run,        \* number of update_locales invocations started
    hist,       \* history: what each finished run saw and left
    sets,       \* history: the set_deep calls of the current run
    \* ---- the tree operations applied on their own ----
    mode,       \* which operation sequence is exercised
    T,          \* the input tree
    d,          \* the tree set_deep mutates
    raised,     \* whether a set_deep call raised
    last,       \* arguments of the last set_deep call
    written,    \* calls of set_deep so far, in order
    flat,       \* result of get_keys
    todo,       \* paths of flat not yet rebuilt
    rebuilt,    \* tree being rebuilt from flat
    refKeys,    \* report_missing: en_keys
    tgtKeys,    \* report_missing: lang_keys
    report      \* lines printed by report_missing

pvars == <<files, new_keys_flat, pc, li, ei, data, out, err, run, hist, sets>>
hvars == <<mode, T, d, raised, last, written, flat, todo, rebuilt,
           refKeys, tgtKeys, report>>
vars == <<pvars, hvars>>

----------------------------------------------------------------------------
(* Bounds of the model *)

\* most items (over all levels) of an input tree
MaxEntries == 3
\* most set_deep calls when building a tree from the empty tree
MaxCalls == 3
\* most segments of a path handed to set_deep on its own
MaxSegs == 2
\* number of invocations of update_locales in one behaviour
MaxRuns == 2

----------------------------------------------------------------------------
(* Python str: sequences of characters *)

Dot == "."

\* code point order of the characters used ('.' is 46, letters follow)
Ord(c) == CASE c = "." -> 46
            [] c = "a" -> 97
            [] c = "b" -> 98
            [] c = "c" -> 99

\* str < str: lexicographic by code point, a proper prefix is smaller
StrLess(x, y) ==
    \E i \in 1..(Len(x) + 1) :
        /\ i <= Len(y)
        /\ \A j \in 1..(i - 1) : x[j] = y[j]
        /\ (i = Len(x) + 1 \/ Ord(x[i]) < Ord(y[i]))

\* key.split('.')
RECURSIVE Split(_)
Split(s) ==
    IF \A i \in 1..Len(s) : s[i] # Dot
    THEN <<s>>
    ELSE LET i == CHOOSE i \in 1..Len(s) :
                      s[i] = Dot /\ \A j \in 1..(i - 1) : s[j] # Dot
         IN <<SubSeq(s, 1, i - 1)>> \o Split(SubSeq(s, i + 1, Len(s)))

----------------------------------------------------------------------------
(* Python values of a locale tree *)

Str(s) == [t |-> "str", s |-> s]
None == [t |-> "null"]
Dict(items) == [t |-> "dict", items |-> items]
EmptyDict == Dict(<<>>)
IsDict(v) == v.t = "dict"

Item(k, v) == [k |-> k, v |-> v]
DictKeys(x) == {x.items[i].k : i \in 1..Len(x.items)}
Has(x, k) == k \in DictKeys(x)
IndexOf(x, k) == CHOOSE i \in 1..Len(x.items) : x.items[i].k = k
\* x[k]
Lookup(x, k) == x.items[IndexOf(x, k)].v
\* x[k] = v: in place when k is present, appended otherwise
DictSet(x, k, v) ==
    IF Has(x, k)
    THEN Dict([x.items EXCEPT ![IndexOf(x, k)] = Item(k, v)])
    ELSE Dict(Append(x.items, Item(k, v)))
\* the dict after x.setdefault(k, {}); the call returns Lookup of it
SetDefault(x, k) == IF Has(x, k) THEN x ELSE DictSet(x, k, EmptyDict)

\* x == y on Python values: dicts compare as mappings
RECURSIVE DictEq(_, _)
DictEq(x, y) ==
    IF IsDict(x) /\ IsDict(y)
    THEN /\ DictKeys(x) = DictKeys(y)
         /\ \A k \in DictKeys(x) : DictEq(Lookup(x, k), Lookup(y, k))
    ELSE x = y

----------------------------------------------------------------------------
(* src/update_vocab_locales.py: set_deep *)

\* The result of a call: the tree as the call left it, and whether it raised
\* (AttributeError: 'str' object has no attribute 'setdefault'; TypeError:
\* 'str' object does not support item assignment; IndexError on keys[-1]).
\* mutant: every segment but the last is assigned a new empty mapping,
\* d[key] = {}, where the code calls d.setdefault(key, {})
RECURSIVE set_deep_fresh(_, _, _)
set_deep_fresh(x, keys, value) ==
    IF keys = <<>> THEN [tree |-> x, raised |-> TRUE]
    ELSE IF ~IsDict(x) THEN [tree |-> x, raised |-> TRUE]
    ELSE IF Len(keys) = 1
    THEN [tree |-> DictSet(x, keys[1], value), raised |-> FALSE]
    ELSE LET x1 == DictSet(x, keys[1], EmptyDict)
             r == set_deep_fresh(EmptyDict, Tail(keys), value)
         IN [tree |-> DictSet(x1, keys[1], r.tree), raised |-> r.raised]

\* mutant: the last segment is set with d.setdefault(keys[-1], value), which
\* keeps a value that is already there
RECURSIVE set_deep_keepFirst(_, _, _)
set_deep_keepFirst(x, keys, value) ==
    IF keys = <<>> THEN [tree |-> x, raised |-> TRUE]
    ELSE IF ~IsDict(x) THEN [tree |-> x, raised |-> TRUE]
    ELSE IF Len(keys) = 1
    THEN [tree |-> IF Has(x, keys[1]) THEN x ELSE DictSet(x, keys[1], value),
          raised |-> FALSE]
    ELSE LET x1 == SetDefault(x, keys[1])
             r == set_deep_keepFirst(Lookup(x1, keys[1]), Tail(keys), value)
         IN [tree |-> DictSet(x1, keys[1], r.tree), raised |-> r.raised]

\* mutant: the last segment is inserted only, and a key that is already
\* there raises
RECURSIVE set_deep_insertOnly(_, _, _)
set_deep_insertOnly(x, keys, value) ==
    IF keys = <<>> THEN [tree |-> x, raised |-> TRUE]
    ELSE IF ~IsDict(x) THEN [tree |-> x, raised |-> TRUE]
    ELSE IF Len(keys) = 1
    THEN IF Has(x, keys[1])
         THEN [tree |-> x, raised |-> TRUE]
         ELSE [tree |-> DictSet(x, keys[1], value), raised |-> FALSE]
    ELSE LET x1 == SetDefault(x, keys[1])
             r == set_deep_insertOnly(Lookup(x1, keys[1]), Tail(keys), value)
         IN [tree |-> DictSet(x1, keys[1], r.tree), raised |-> r.raised]

RECURSIVE set_deep(_, _, _)
set_deep(x, keys, value) ==
    IF keys = <<>> THEN [tree |-> x, raised |-> TRUE]
    ELSE IF ~IsDict(x) THEN [tree |-> x, raised |-> TRUE]
    ELSE IF Len(keys) = 1
    THEN [tree |-> DictSet(x, keys[1], value), raised |-> FALSE]
    ELSE LET x1 == SetDefault(x, keys[1])
             r == set_deep(Lookup(x1, keys[1]), Tail(keys), value)
         IN [tree |-> DictSet(x1, keys[1], r.tree), raised |-> r.raised]

----------------------------------------------------------------------------
(* src/compare_i18n.py: get_keys *)

\* mutant: nested mappings are not recursed into
get_keys_shallow(x, prefix) ==
    UNION { LET k == x.items[i].k
                v == x.items[i].v
            IN IF IsDict(v) THEN {} ELSE {prefix \o k}
            : i \in 1..Len(x.items) }

\* mutant: the key of a nested mapping is emitted as well
RECURSIVE get_keys_withDicts(_, _)
get_keys_withDicts(x, prefix) ==
    UNION { LET k == x.items[i].k
                v == x.items[i].v
            IN IF IsDict(v)
               THEN {prefix \o k} \cup get_keys_withDicts(v, prefix \o k \o <<Dot>>)
               ELSE {prefix \o k}
            : i \in 1..Len(x.items) }

RECURSIVE get_keys(_, _)
get_keys(x, prefix) ==
    UNION { LET k == x.items[i].k
                v == x.items[i].v
            IN IF IsDict(v)
               THEN get_keys(v, prefix \o k \o <<Dot>>)
               ELSE {prefix \o k}
            : i \in 1..Len(x.items) }

----------------------------------------------------------------------------
(* src/compare_i18n.py: report_missing *)

\* sorted(list(s)) for a set of str
RECURSIVE Sorted(_)
Sorted(s) ==
    IF s = {} THEN <<>>
    ELSE LET m == CHOOSE m \in s : \A o \in s \ {m} : StrLess(m, o)
         IN <<m>> \o Sorted(s \ {m})

HeaderLine(name, n) == [kind |-> "header", name |-> name, count |-> n]
KeyLine(k) == [kind |-> "key", key |-> k]

\* mutant: the symmetric difference is reported
report_missing_symmetric(lang_name, lang_keys, en_keys) ==
    LET missing == (en_keys \ lang_keys) \cup (lang_keys \ en_keys)
        ks == Sorted(missing)
    IN <<HeaderLine(lang_name, Cardinality(missing))>>
           \o [i \in 1..Len(ks) |-> KeyLine(ks[i])]

\* the lines report_missing prints
report_missing(lang_name, lang_keys, en_keys) ==
    LET missing == en_keys \ lang_keys
        ks == Sorted(missing)
    IN <<HeaderLine(lang_name, Cardinality(missing))>>
           \o [i \in 1..Len(ks) |-> KeyLine(ks[i])]

----------------------------------------------------------------------------
(* Inputs of the tree operations *)

sA == <<"a">>
sB == <<"b">>
sC == <<"c">>
sAdotB == <<"a", ".", "b">>

\* keys of the input trees: plain keys and a key that contains '.'
KeyPool == {sA, sB, sAdotB}
LeafPool == {Str("1"), Str("2")}

\* '.'.join(segs)
RECURSIVE JoinDot(_)
JoinDot(segs) ==
    IF Len(segs) = 1 THEN segs[1]
    ELSE segs[1] \o <<Dot>> \o JoinDot(Tail(segs))

\* every dict with exactly n items over all its levels
RECURSIVE TreesOfSize(_)
TreesOfSize(n) ==
    IF n = 0 THEN {EmptyDict}
    ELSE UNION { UNION { { Dict(<<Item(k, v)>> \o r.items) :
                             r \in {r \in TreesOfSize(n - 1 - m) : ~Has(r, k)} }
                         : v \in (IF m = 0 THEN LeafPool \cup {EmptyDict}
                                           ELSE TreesOfSize(m)) }
                 : <<k, m>> \in KeyPool \X (0..(n - 1)) }

Trees == UNION {TreesOfSize(n) : n \in 0..MaxEntries}

SeqsUpTo(S, n) == UNION {[1..m -> S] : m \in 1..n}
\* segment lists for a call of set_deep on an arbitrary tree
SegLists == SeqsUpTo(KeyPool, MaxSegs)
\* dotted keys, as new_keys_flat holds them
DottedKeys ==
    {sA, sB, sAdotB, <<"a", ".", "a">>, <<"b", ".", "a">>,
     <<"a", ".", "b", ".", "a">>}
\* the value a single call of set_deep writes: none the tree holds
NewLeaf == Str("new")
\* flattened key sets handed to report_missing
ReportPaths == {sA, sAdotB, <<"a", "b">>, sC}
LangNames == {"zh", "vi", "mn"}

NoFlat == [done |-> FALSE, keys |-> {}]
NoCall == [keys |-> <<>>, value |-> None]

----------------------------------------------------------------------------
(* The tree operations applied on their own: one call of set_deep on an     *)
(* arbitrary tree ("set"), a tree built from {} by set_deep calls on dotted *)
(* keys ("build"), get_keys followed by the rebuild of the tree from its    *)
(* flattened paths ("flatten"), and report_missing ("report").              *)

PIdle ==
    /\ files = <<>> /\ new_keys_flat = <<>> /\ pc = "idle" /\ li = 0 /\ ei = 0
    /\ data = None /\ out = <<>> /\ err = "none" /\ run = 0
    /\ hist = <<>> /\ sets = <<>>

HStart(m, t) ==
    /\ mode = m /\ T = t /\ d = t
    /\ raised = FALSE /\ last = NoCall /\ written = <<>>
    /\ flat = NoFlat /\ todo = {} /\ rebuilt = EmptyDict
    /\ report = <<>>

HInit ==
    \/ \E t \in Trees :
           HStart("set", t) /\ refKeys = {} /\ tgtKeys = {}
    \/ HStart("build", EmptyDict) /\ refKeys = {} /\ tgtKeys = {}
    \/ \E t \in Trees :
           HStart("flatten", t) /\ refKeys = {} /\ tgtKeys = {}
    \/ /\ HStart("report", EmptyDict)
       /\ refKeys \in SUBSET ReportPaths
       /\ tgtKeys \in SUBSET ReportPaths

\* set_deep(d, keys, value) on the current tree
CallSetDeep(keys, value) ==
    LET r == set_deep(d, keys, value)
    IN /\ d' = r.tree
       /\ raised' = r.raised
       /\ last' = [keys |-> keys, value |-> value]
       /\ written' = Append(written, [keys |-> keys, value |-> value])
       /\ UNCHANGED <<mode, T, flat, todo, rebuilt, refKeys, tgtKeys, report>>

\* one call of set_deep on an arbitrary tree
HSetDeep ==
    /\ mode = "set" /\ written = <<>>
    /\ \E keys \in SegLists : CallSetDeep(keys, NewLeaf)
    /\ UNCHANGED pvars

\* set_deep(tree, key.split('.'), value), starting from the empty tree
HBuild ==
    /\ mode = "build" /\ ~raised /\ flat = NoFlat
    /\ Len(written) < MaxCalls
    /\ \E key \in DottedKeys, value \in LeafPool :
           CallSetDeep(Split(key), value)
    /\ UNCHANGED pvars

\* get_keys(d)
HGetKeys ==
    /\ mode \in {"build", "flatten"} /\ ~raised /\ flat = NoFlat
    /\ flat' = [done |-> TRUE, keys |-> get_keys(d, <<>>)]
    /\ todo' = get_keys(d, <<>>)
    /\ UNCHANGED <<mode, T, d, raised, last, written, rebuilt,
                   refKeys, tgtKeys, report>>
    /\ UNCHANGED pvars

\* the leaves of a tree, each with the keys that lead to it
RECURSIVE LeavesOf(_, _)
LeavesOf(x, at) ==
    UNION { LET k == x.items[i].k
                v == x.items[i].v
            IN IF IsDict(v)
               THEN LeavesOf(v, Append(at, k))
               ELSE {[keys |-> Append(at, k), v |-> v]}
            : i \in 1..Len(x.items) }

\* rebuild: set_deep(rebuilt, path.split('.'), leaf of T at path), once per
\* path of get_keys(T), in any order (a set has no order of its own)
HRebuild ==
    /\ mode = "flatten" /\ flat.done /\ ~raised /\ todo # {}
    /\ \E p \in todo :
         \E l \in {l \in LeavesOf(T, <<>>) : JoinDot(l.keys) = p} :
           LET r == set_deep(rebuilt, Split(p), l.v)
           IN /\ rebuilt' = r.tree
              /\ raised' = r.raised
              /\ todo' = todo \ {p}
              /\ last' = [keys |-> Split(p), value |-> l.v]
    /\ UNCHANGED <<mode, T, d, written, flat, refKeys, tgtKeys, report>>
    /\ UNCHANGED pvars

\* report_missing(name, lang_keys, en_keys), as called at module level for
\* zh, vi and mn
HReport ==
    /\ mode = "report" /\ report = <<>>
    /\ \E name \in LangNames :
           report' = report_missing(name, tgtKeys, refKeys)
    /\ UNCHANGED <<mode, T, d, raised, last, written, flat, todo, rebuilt,
                   refKeys, tgtKeys>>
    /\ UNCHANGED pvars

----------------------------------------------------------------------------
(* Files: JSON text as tokens, json.load and json.dump *)

TLBrace == [tok |-> "{"]
TRBrace == [tok |-> "}"]
TColon == [tok |-> ":"]
TComma == [tok |-> ","]
TNull == [tok |-> "null"]
TStr(s) == [tok |-> "str", s |-> s]
TKey(k) == [tok |-> "key", k |-> k]

\* json.dump(data, f, ensure_ascii=False, indent=2): members in insertion
\* order; white space is not modelled
RECURSIVE json_dump(_)
json_dump(v) ==
    IF IsDict(v)
    THEN LET RECURSIVE Members(_)
             Members(items) ==
                 IF items = <<>> THEN <<>>
                 ELSE <<TKey(items[1].k), TColon>> \o json_dump(items[1].v)
                        \o (IF Len(items) > 1
                            THEN <<TComma>> \o Members(Tail(items))
                            ELSE <<>>)
         IN <<TLBrace>> \o Members(v.items) \o <<TRBrace>>
    ELSE IF v.t = "null" THEN <<TNull>>
    ELSE <<TStr(v.s)>>

ParseFail == [ok |-> FALSE, v |-> None, rest |-> <<>>]

\* the JSON decoder: a value at the head of toks, and what follows it; a
\* repeated member name keeps its first position and its last value
RECURSIVE ParseValue(_)
RECURSIVE ParseMembers(_, _)
ParseValue(toks) ==
    IF toks = <<>> THEN ParseFail
    ELSE IF toks[1].tok = "str"
    THEN [ok |-> TRUE, v |-> Str(toks[1].s), rest |-> Tail(toks)]
    ELSE IF toks[1].tok = "null"
    THEN [ok |-> TRUE, v |-> None, rest |-> Tail(toks)]
    ELSE IF toks[1].tok = "{"
    THEN IF Len(toks) >= 2 /\ toks[2].tok = "}"
         THEN [ok |-> TRUE, v |-> EmptyDict, rest |-> SubSeq(toks, 3, Len(toks))]
         ELSE ParseMembers(Tail(toks), EmptyDict)
    ELSE ParseFail

ParseMembers(toks, acc) ==
    IF Len(toks) < 3 \/ toks[1].tok # "key" \/ toks[2].tok # ":"
    THEN ParseFail
    ELSE LET r == ParseValue(SubSeq(toks, 3, Len(toks)))
             acc1 == DictSet(acc, toks[1].k, r.v)
         IN IF ~r.ok \/ r.rest = <<>> THEN ParseFail
            ELSE IF r.rest[1].tok = "}"
            THEN [ok |-> TRUE, v |-> acc1, rest |-> Tail(r.rest)]
            ELSE IF r.rest[1].tok = ","
            THEN ParseMembers(Tail(r.rest), acc1)
            ELSE ParseFail

\* json.load(f): the value, or ok = FALSE for json.JSONDecodeError
json_load(text) ==
    LET r == ParseValue(text)
    IN IF r.ok /\ r.rest = <<>>
       THEN [ok |-> TRUE, v |-> r.v]
       ELSE [ok |-> FALSE, v |-> None]

Absent == [exists |-> FALSE, text |-> <<>>]
File(text) == [exists |-> TRUE, text |-> text]

----------------------------------------------------------------------------
(* src/update_vocab_locales.py: update_locales *)

\* langs = ['en', 'zh', 'vi', 'mn']
langs == <<"en", "zh", "vi", "mn">>
AllLangs == {"en", "zh", "vi", "mn"}

Entry(key, tr) == [key |-> key, tr |-> tr]
\* translations.get(lang, default)
TrGet(tr, lang, default) ==
    IF lang \in DOMAIN tr THEN Str(tr[lang]) ELSE default
\* mutant: val = translations.get(lang), without the 'en' default
Resolve_noFallback(tr, lang) == TrGet(tr, lang, None)

\* val = translations.get(lang, translations.get('en'))
Resolve(tr, lang) == TrGet(tr, lang, TrGet(tr, "en", None))

\* new_keys_flat.  The table of the source holds keys of two and of three
\* segments under one root ("vocab.quiz", "vocab.pos.noun"), none of them a
\* prefix of another, each with all four languages: TableSource has that
\* shape (a stands for vocab and pos, b for the last segment).  The other
\* tables keep the keys free of prefixes and leave languages out, which is
\* the case translations.get(lang, translations.get('en')) is written for.
TableSource ==
    << Entry(<<"a", ".", "b">>,
             [l \in AllLangs |-> IF l = "en" THEN "Quiz" ELSE "Quiz_" \o l]),
       Entry(<<"a", ".", "a", ".", "b">>,
             [l \in AllLangs |-> IF l = "en" THEN "Noun" ELSE "Noun_" \o l]) >>
TablePartial ==
    << Entry(<<"a", ".", "b">>, [l \in {"en", "zh"} |->
                                   IF l = "en" THEN "Hi" ELSE "Hi_zh"]) >>
TableMixed ==
    << Entry(<<"a", ".", "b">>, [l \in {"en", "vi"} |->
                                   IF l = "en" THEN "Hi" ELSE "Hi_vi"]),
       Entry(<<"b">>, [l \in {"en"} |-> "Bye"]) >>
Tables == {TableSource, TablePartial, TableMixed}

\* what a locale file may hold before the first run
TextDup ==
    <<TLBrace, TKey(sA), TColon, TStr("x"), TComma,
      TKey(sA), TColon, TStr("leaf"), TRBrace>>
TextTruncated == <<TLBrace, TKey(sA), TColon>>
TreeOld ==
    Dict(<<Item(sB, Dict(<<Item(sA, Str("keep"))>>)),
           Item(sA, Dict(<<Item(sB, Str("old")), Item(sA, EmptyDict)>>))>>)
FileChoices ==
    { Absent,
      File(TextTruncated),
      File(json_dump(EmptyDict)),
      File(TextDup),
      File(json_dump(TreeOld)) }

UpdatedLine(lang) == [kind |-> "updated", lang |-> lang]

PInit ==
    /\ files \in [AllLangs -> FileChoices]
    /\ new_keys_flat \in Tables
    /\ pc = "idle" /\ li = 0 /\ ei = 0 /\ data = None
    /\ out = <<>> /\ err = "none" /\ run = 0
    /\ hist = <<>> /\ sets = <<>>

\* the record of a run, completed when the run returns or raises
Finished(e, fs, o) ==
    [hist EXCEPT ![run] = [@ EXCEPT !.done = TRUE, !.err = e,
                                    !.end = fs, !.out = o]]

\* python update_vocab_locales.py
Start ==
    /\ mode = "update_locales" /\ pc = "idle" /\ run < MaxRuns
    /\ run' = run + 1
    /\ pc' = "exists" /\ li' = 1 /\ ei' = 0 /\ data' = None
    /\ out' = <<>> /\ err' = "none" /\ sets' = <<>>
    /\ hist' = Append(hist, [start |-> files, done |-> FALSE, err |-> "none",
                             end |-> files, out |-> <<>>])
    /\ UNCHANGED <<files, new_keys_flat>>
    /\ UNCHANGED hvars

\* the for loop moves to the next language, or the call returns
NextLang(o) ==
    IF li < Len(langs)
    THEN /\ li' = li + 1 /\ pc' = "exists" /\ hist' = hist
    ELSE /\ li' = li /\ pc' = "idle" /\ hist' = Finished("none", files', o)

\* mutant: os.path.exists is not consulted, so that open() raises for a
\* language without a file
Exists_raises ==
    /\ pc = "exists"
    /\ IF files[langs[li]].exists
       THEN /\ pc' = "load"
            /\ UNCHANGED <<li, hist, err>>
       ELSE /\ err' = "FileNotFoundError" /\ pc' = "idle" /\ li' = li
            /\ hist' = Finished("FileNotFoundError", files, out)
    /\ UNCHANGED <<files, new_keys_flat, ei, data, out, run, sets>>
    /\ UNCHANGED hvars

\* line 78: if not os.path.exists(path): continue
Exists ==
    /\ pc = "exists"
    /\ IF files[langs[li]].exists
       THEN /\ pc' = "load"
            /\ UNCHANGED <<files, li, hist>>
       ELSE /\ files' = files
            /\ NextLang(out)
    /\ UNCHANGED <<new_keys_flat, ei, data, out, err, run, sets>>
    /\ UNCHANGED hvars

\* mutant: a file that does not parse is passed over like a missing one
Load_skips ==
    /\ pc = "load"
    /\ LET r == json_load(files[langs[li]].text)
       IN IF r.ok
          THEN /\ data' = r.v /\ ei' = 1 /\ pc' = "merge"
               /\ UNCHANGED <<li, hist>>
          ELSE /\ files' = files
               /\ NextLang(out)
               /\ UNCHANGED <<data, ei>>
    /\ UNCHANGED <<files, new_keys_flat, err, out, run, sets>>
    /\ UNCHANGED hvars

\* lines 80-81: data = json.load(f)
Load ==
    /\ pc = "load"
    /\ LET r == json_load(files[langs[li]].text)
       IN IF r.ok
          THEN /\ data' = r.v /\ ei' = 1 /\ pc' = "merge"
               /\ UNCHANGED <<err, hist>>
          ELSE /\ err' = "JSONDecodeError" /\ pc' = "idle"
               /\ hist' = Finished("JSONDecodeError", files, out)
               /\ UNCHANGED <<data, ei>>
    /\ UNCHANGED <<files, new_keys_flat, li, out, run, sets>>
    /\ UNCHANGED hvars

\* lines 83-86: one iteration of the loop over new_keys_flat.items()
Merge ==
    /\ pc = "merge"
    /\ LET e == new_keys_flat[ei]
           keys == Split(e.key)
           val == Resolve(e.tr, langs[li])
           r == set_deep(data, keys, val)
       IN /\ data' = r.tree
          /\ sets' = Append(sets, [lang |-> langs[li], key |-> e.key,
                                   val |-> val, before |-> data,
                                   raised |-> r.raised])
          /\ IF r.raised
             THEN /\ err' = "set_deep" /\ pc' = "idle" /\ ei' = ei
                  /\ hist' = Finished("set_deep", files, out)
             ELSE /\ ei' = ei + 1
                  /\ pc' = IF ei < Len(new_keys_flat) THEN "merge" ELSE "write"
                  /\ UNCHANGED <<err, hist>>
    /\ UNCHANGED <<files, new_keys_flat, li, out, run>>
    /\ UNCHANGED hvars

\* lines 88-89: json.dump(data, f, ensure_ascii=False, indent=2)
Write ==
    /\ pc = "write"
    /\ files' = [files EXCEPT ![langs[li]] = File(json_dump(data))]
    /\ pc' = "print"
    /\ UNCHANGED <<new_keys_flat, li, ei, data, out, err, run, hist, sets>>
    /\ UNCHANGED hvars

\* line 90: print(f"Updated {path}")
Updated ==
    /\ pc = "print"
    /\ out' = Append(out, UpdatedLine(langs[li]))
    /\ files' = files
    /\ NextLang(out')
    /\ UNCHANGED <<new_keys_flat, ei, data, err, run, sets>>
    /\ UNCHANGED hvars

HIdle ==
    /\ mode = "update_locales" /\ T = EmptyDict /\ d = EmptyDict
    /\ raised = FALSE /\ last = NoCall /\ written = <<>>
    /\ flat = NoFlat /\ todo = {} /\ rebuilt = EmptyDict
    /\ refKeys = {} /\ tgtKeys = {} /\ report = <<>>

Init == (PInit /\ HIdle) \/ (HInit /\ PIdle)

Next ==
    \/ Start \/ Exists \/ Load \/ Merge \/ Write \/ Updated
    \/ HSetDeep \/ HBuild \/ HGetKeys \/ HRebuild \/ HReport

Spec == Init /\ [][Next]_vars

----------------------------------------------------------------------------
(* Notions the claims are stated in *)

Range(f) == {f[i] : i \in DOMAIN f}
IsPrefix(a, b) == Len(a) <= Len(b) /\ SubSeq(b, 1, Len(a)) = a
IsProperPrefix(a, b) == Len(a) < Len(b) /\ SubSeq(b, 1, Len(a)) = a

\* following the keys ks from x, key by key
RECURSIVE ValueAt(_, _)
ValueAt(x, ks) ==
    IF ks = <<>> THEN [ok |-> TRUE, v |-> x]
    ELSE IF IsDict(x) /\ Has(x, ks[1])
    THEN ValueAt(Lookup(x, ks[1]), Tail(ks))
    ELSE [ok |-> FALSE, v |-> None]

Found(v) == [ok |-> TRUE, v |-> v]
IsLeafAt(x, ks) == ValueAt(x, ks).ok /\ ~IsDict(ValueAt(x, ks).v)

\* no dict below the root is empty
RECURSIVE NoEmptySubtree(_)
NoEmptySubtree(x) ==
    \A i \in 1..Len(x.items) :
        LET v == x.items[i].v
        IN IsDict(v) => (v.items # <<>> /\ NoEmptySubtree(v))

\* no key, at any level, contains '.'
RECURSIVE DotFreeKeys(_)
DotFreeKeys(x) ==
    \A i \in 1..Len(x.items) :
        /\ \A j \in 1..Len(x.items[i].k) : x.items[i].k[j] # Dot
        /\ IsDict(x.items[i].v) => DotFreeKeys(x.items[i].v)

\* two dotted paths of which neither is the other nor leads through it
Unrelated(p, q) ==
    /\ ~IsPrefix(Split(p), Split(q))
    /\ ~IsPrefix(Split(q), Split(p))

----------------------------------------------------------------------------
(* C1: round trip, flatten then rebuild *)

RebuildOver == mode = "flatten" /\ flat.done /\ (todo = {} \/ raised)

\* C1 as stated: for every locale tree T, set_deep applied to an empty tree
\* once per path of get_keys(T), with the path split on '.' and the leaf T
\* holds there, completes and reproduces a tree equal to T.
C1_RoundTripEveryTree ==
    RebuildOver => (~raised /\ DictEq(rebuilt, T))

\* C1 amended: the same, for every locale tree T none of whose keys contains
\* '.' and none of whose nested mappings is empty.
C1_RoundTrip ==
    (RebuildOver /\ DotFreeKeys(T) /\ NoEmptySubtree(T))
        => (~raised /\ DictEq(rebuilt, T))

\* a tree with two leaves below one nested mapping was rebuilt
C1_Witness ==
    /\ RebuildOver /\ ~raised /\ todo = {}
    /\ DotFreeKeys(T) /\ NoEmptySubtree(T)
    /\ Cardinality(flat.keys) = 2
    /\ \E k \in DictKeys(T) :
           IsDict(Lookup(T, k)) /\ Len(Lookup(T, k).items) = 2
    /\ DictEq(rebuilt, T)

----------------------------------------------------------------------------
(* C2: round trip, build then flatten *)

WrittenPaths == {JoinDot(written[i].keys) : i \in 1..Len(written)}
\* the value of the last call that wrote path p
LastValue(p) ==
    LET i == CHOOSE i \in 1..Len(written) :
                 /\ JoinDot(written[i].keys) = p
                 /\ \A j \in (i + 1)..Len(written) :
                        JoinDot(written[j].keys) # p
    IN written[i].value
BuiltAsWritten ==
    /\ flat.keys = WrittenPaths
    /\ \A p \in WrittenPaths : ValueAt(d, Split(p)) = Found(LastValue(p))
PrefixFreeWritten ==
    \A i, j \in 1..Len(written) :
        ~IsProperPrefix(written[i].keys, written[j].keys)

\* C2 as stated: after any sequence of set_deep calls on an initially empty
\* tree, get_keys is exactly the set of dotted paths that were set, and the
\* leaf at each is the value last assigned to it.
C2_BuildEverySequence ==
    (mode = "build" /\ flat.done) => BuiltAsWritten

\* C2 amended: the same, for every sequence of calls in which no written
\* path is a proper prefix of another written path; every such sequence
\* completes.
C2_Build ==
    (mode = "build" /\ PrefixFreeWritten)
        => (~raised /\ (flat.done => BuiltAsWritten))

\* three calls, one path written twice with different values, flattened
C2_Witness ==
    /\ mode = "build" /\ flat.done /\ PrefixFreeWritten
    /\ Len(written) = 3
    /\ written[1].keys = written[3].keys
    /\ written[1].value # written[3].value
    /\ Len(written[1].keys) = 2
    /\ Cardinality(flat.keys) = 2

----------------------------------------------------------------------------
(* C3: set_deep reaches the value *)

\* C3: set_deep(tree, segments, value), for every locale tree and every
\* non-empty segment list, completes and leaves the tree such that following
\* segments from the root reaches value.
C3_SetDeepCompletes ==
    (mode = "set" /\ written # <<>>)
        => (~raised /\ ValueAt(d, last.keys) = Found(last.value))

----------------------------------------------------------------------------
(* C4: get_keys is the set of dotted leaf paths *)

LeafKeySeqs(x) == {ks \in SeqsUpTo(KeyPool, MaxEntries) : IsLeafAt(x, ks)}

\* C4: get_keys(tree) is exactly the set of '.'-joined key sequences that
\* lead from the root to a leaf; a key whose value is a mapping is never
\* emitted, and a tree without leaves gives the empty set.
C4_GetKeys ==
    (mode = "flatten" /\ flat.done)
        => flat.keys = {JoinDot(ks) : ks \in LeafKeySeqs(T)}

\* flattened: a tree with a leaf below a nested mapping, a top-level leaf
\* and an empty nested mapping
C4_Witness ==
    /\ mode = "flatten" /\ flat.done
    /\ Len(T.items) = 3
    /\ \E k \in DictKeys(T) : Lookup(T, k) = EmptyDict
    /\ \E k \in DictKeys(T) : ~IsDict(Lookup(T, k))
    /\ Cardinality(flat.keys) = 1

----------------------------------------------------------------------------
(* C5: report_missing *)

\* C5: report_missing prints a header whose count is the size of
\* reference_keys minus target_keys, then exactly the paths of that
\* difference, each once, in ascending order; a path only the target holds
\* is never printed.
C5_ReportMissing ==
    (mode = "report" /\ report # <<>>) =>
        LET missing == refKeys \ tgtKeys
            body == Tail(report)
        IN /\ report[1].kind = "header"
           /\ report[1].count = Cardinality(missing)
           /\ Len(body) = Cardinality(missing)
           /\ \A i \in 1..Len(body) : body[i].kind = "key"
           /\ {body[i].key : i \in 1..Len(body)} = missing
           /\ \A i, j \in 1..Len(body) :
                  i < j => StrLess(body[i].key, body[j].key)
           /\ \A i \in 1..Len(body) : body[i].key \notin tgtKeys \ refKeys

\* the reference holds a.b and c that the target lacks, both hold a, and
\* the target alone holds ab: a.b and c are reported, in that order
C5_Witness ==
    /\ mode = "report"
    /\ refKeys = {sA, sAdotB, sC}
    /\ tgtKeys = {sA, <<"a", "b">>}
    /\ Len(report) = 3
    /\ report[1].count = 2
    /\ report[2] = KeyLine(sAdotB)
    /\ report[3] = KeyLine(sC)

----------------------------------------------------------------------------
(* Notions the claims about update_locales are stated in *)

InRun == mode = "update_locales" /\ run >= 1
RunOver == InRun /\ pc = "idle"
\* indices of the languages the current run has finished with
Completed ==
    IF pc = "idle" /\ hist[run].err = "none"
    THEN 1..Len(langs)
    ELSE 1..(li - 1)
StartFile(L) == hist[run].start[L]
TreeIn(file) == json_load(file.text)

TableEntry(key) == CHOOSE e \in Range(new_keys_flat) : e.key = key
\* the entry's value for L, or its 'en' value when it defines none for L
Expected(e, L) ==
    IF L \in DOMAIN e.tr THEN Str(e.tr[L]) ELSE Str(e.tr["en"])
\* the file holds a tree in which every entry's path leads to its value
HoldsEntries(file, L) ==
    /\ file.exists /\ TreeIn(file).ok
    /\ \A i \in 1..Len(new_keys_flat) :
           ValueAt(TreeIn(file).v, Split(new_keys_flat[i].key))
               = Found(Expected(new_keys_flat[i], L))
\* a leaf, or a value that is no mapping, stands where keys has to descend
BlockedPath(x, keys) ==
    \/ ~IsDict(x)
    \/ \E n \in 1..(Len(keys) - 1) : IsLeafAt(x, SubSeq(keys, 1, n))

----------------------------------------------------------------------------
(* C6: fallback to the 'en' value *)

\* C6: the value update_locales deep-sets for an entry and a language L is
\* the entry's value for L when it defines one and its 'en' value otherwise;
\* a call raises only because of the tree it is applied to, never because
\* the translation for L is missing; the file written for L holds these
\* values.
C6_Fallback ==
    mode = "update_locales" =>
        /\ \A i \in 1..Len(sets) :
               /\ sets[i].val = Expected(TableEntry(sets[i].key), sets[i].lang)
               /\ sets[i].raised
                      => BlockedPath(sets[i].before, Split(sets[i].key))
        /\ pc = "print" => HoldsEntries(files[langs[li]], langs[li])

\* the entry a.b = {en: Hi, zh: Hi_zh} was set to Hi_zh for zh and, by
\* fallback, to Hi for vi, and the file of vi has been written
C6_Witness ==
    /\ InRun /\ new_keys_flat = TablePartial
    /\ pc = "print" /\ langs[li] = "vi"
    /\ \E i, j \in 1..Len(sets) :
           /\ sets[i].lang = "zh" /\ sets[i].val = Str("Hi_zh")
           /\ sets[j].lang = "vi" /\ sets[j].val = Str("Hi")
           /\ ~sets[i].raised /\ ~sets[j].raised
    /\ ValueAt(TreeIn(files["vi"]).v, <<sA, sB>>) = Found(Str("Hi"))

----------------------------------------------------------------------------
(* C7: a language without a file is skipped *)

\* C7: a language whose file does not exist is skipped: the run never ends
\* in an error at such a language, no file is created for it and no
\* 'Updated' line is printed for it, and the run goes on, so that every
\* language the run has finished with whose file exists has been merged,
\* written and reported.
C7_SkipMissing ==
    InRun =>
        /\ (pc = "idle" /\ hist[run].err # "none")
               => StartFile(langs[li]).exists
        /\ \A j \in Completed :
               IF StartFile(langs[j]).exists
               THEN /\ HoldsEntries(files[langs[j]], langs[j])
                    /\ UpdatedLine(langs[j]) \in Range(out)
               ELSE /\ files[langs[j]] = Absent
                    /\ UpdatedLine(langs[j]) \notin Range(out)

\* a finished run: zh had no file and still has none, en before it and vi
\* and mn after it were merged, written and reported
C7_Witness ==
    /\ RunOver /\ hist[run].err = "none"
    /\ ~StartFile("zh").exists /\ files["zh"] = Absent
    /\ StartFile("en").exists /\ StartFile("vi").exists
    /\ StartFile("mn").exists
    /\ out = <<UpdatedLine("en"), UpdatedLine("vi"), UpdatedLine("mn")>>
    /\ HoldsEntries(files["vi"], "vi") /\ files["vi"] # StartFile("vi")

----------------------------------------------------------------------------
(* C8: one language after another, no rollback *)

\* 'Updated' lines of the languages among the first n whose file existed
RECURSIVE UpdatedUpTo(_)
UpdatedUpTo(n) ==
    IF n = 0 THEN <<>>
    ELSE UpdatedUpTo(n - 1)
           \o (IF StartFile(langs[n]).exists
               THEN <<UpdatedLine(langs[n])>> ELSE <<>>)

\* C8: the languages are processed in the order en, zh, vi, mn, each file
\* being merged and written before the next is opened; a malformed file
\* ends the run at its language: the files of earlier languages keep their
\* merged content, the malformed file and the files of all later languages
\* keep their previous content, and none of these gets an 'Updated' line.
C8_SequentialNoRollback ==
    InRun =>
        \* reports so far: the earlier languages, in order
        /\ out = UpdatedUpTo(IF pc = "idle" /\ hist[run].err = "none"
                             THEN Len(langs)
                             ELSE li - 1)
        \* earlier languages are merged and written
        /\ \A j \in Completed :
               StartFile(langs[j]).exists
                   => HoldsEntries(files[langs[j]], langs[j])
        \* later languages are untouched
        /\ \A j \in (li + 1)..Len(langs) :
               files[langs[j]] = StartFile(langs[j])
        \* the current language is untouched until it is written
        /\ (pc \in {"exists", "load", "merge", "write"}
              \/ (pc = "idle" /\ hist[run].err # "none"))
               => files[langs[li]] = StartFile(langs[li])
        \* a malformed file ends the run, and only such a file does so here
        /\ (pc = "idle" /\ hist[run].err = "JSONDecodeError")
               => ~TreeIn(StartFile(langs[li])).ok
        /\ (pc \in {"merge", "write", "print"})
               => TreeIn(StartFile(langs[li])).ok
        /\ \A j \in Completed :
               StartFile(langs[j]).exists => TreeIn(StartFile(langs[j])).ok

\* the run ended at vi, whose file is malformed: en and zh were rewritten
\* and reported, vi and mn hold what they held
C8_Witness ==
    /\ RunOver /\ run = 1 /\ hist[run].err = "JSONDecodeError"
    /\ langs[li] = "vi"
    /\ StartFile("en").exists /\ files["en"] # StartFile("en")
    /\ StartFile("zh").exists /\ files["zh"] # StartFile("zh")
    /\ out = <<UpdatedLine("en"), UpdatedLine("zh")>>
    /\ files["vi"] = File(TextTruncated)
    /\ StartFile("mn").exists /\ TreeIn(StartFile("mn")).ok
    /\ files["mn"] = StartFile("mn")

----------------------------------------------------------------------------
(* C9: a second run leaves the trees of the first *)

\* C9: when a run of update_locales has merged and written the file of a
\* language, a second run with the same entry table merges and writes it
\* again and leaves a tree equal to the one the first run left; a first run
\* that returned without error is followed by a second that does so too.
C9_Idempotent ==
    mode = "update_locales" =>
        \A r \in 2..Len(hist) :
            hist[r].done =>
                /\ hist[r - 1].err = "none" => hist[r].err = "none"
                /\ \A L \in AllLangs :
                       UpdatedLine(L) \in Range(hist[r - 1].out) =>
                           /\ UpdatedLine(L) \in Range(hist[r].out)
                           /\ TreeIn(hist[r].end[L]).ok
                           /\ DictEq(TreeIn(hist[r].end[L]).v,
                                     TreeIn(hist[r - 1].end[L]).v)

\* two runs over the table shaped like that of the source: the file of en
\* held old translations, the first run changed it, the second rewrote it
\* with an equal tree
C9_Witness ==
    /\ mode = "update_locales" /\ Len(hist) = 2 /\ hist[2].done
    /\ hist[1].err = "none" /\ hist[2].err = "none"
    /\ new_keys_flat = TableSource
    /\ hist[1].start["en"] = File(json_dump(TreeOld))
    /\ hist[1].end["en"] # hist[1].start["en"]
    /\ UpdatedLine("en") \in Range(hist[2].out)
    /\ DictEq(TreeIn(hist[2].end["en"]).v, TreeIn(hist[1].end["en"]).v)

----------------------------------------------------------------------------
(* C10: set_deep leaves the rest of the tree alone *)

\* C10: after a successful set_deep every leaf of the tree whose dotted path
\* is neither the written path, nor an extension of it, nor a proper prefix
\* of it is still there with its value; so, once update_locales has merged
\* and written a file, every leaf the file held whose path is unrelated to
\* all keys of the entry table is still in it.
C10_Frame ==
    /\ (mode = "set" /\ written # <<>> /\ ~raised) =>
           \A l \in LeavesOf(T, <<>>) :
               Unrelated(JoinDot(l.keys), JoinDot(last.keys))
                   => l \in LeavesOf(d, <<>>)
    /\ InRun =>
           \A j \in Completed :
               StartFile(langs[j]).exists =>
                   \A l \in LeavesOf(TreeIn(StartFile(langs[j])).v, <<>>) :
                       (\A i \in 1..Len(new_keys_flat) :
                            Unrelated(JoinDot(l.keys), new_keys_flat[i].key))
                           => l \in LeavesOf(TreeIn(files[langs[j]]).v, <<>>)

\* a call with two segments replaced a leaf of a tree that holds another
\* leaf elsewhere, below a nested mapping
C10_Witness ==
    /\ mode = "set" /\ written # <<>> /\ ~raised
    /\ Len(last.keys) = 2
    /\ IsLeafAt(T, last.keys)
    /\ ValueAt(T, last.keys) # ValueAt(d, last.keys)
    /\ \E l \in LeavesOf(T, <<>>) :
           /\ Len(l.keys) = 2
           /\ Unrelated(JoinDot(l.keys), JoinDot(last.keys))
           /\ l \in LeavesOf(d, <<>>)

====
